---- MODULE Spec2Model ----
(***************************************************************************)
(* Model of KnowledgeBase (src/knowledge_base.py): a document store of two *)
(* parallel lists (documents, embeddings), a metadata map keyed by the     *)
(* absolute path of each ingested file, three persisted artifacts, the     *)
(* directory sync add_documents_from_directory, add_document, search and   *)
(* clear_knowledge_base.                                                   *)
(*                                                                         *)
(* Strings are sequences of tokens.  "TAG" is the substring "文件: " and   *)
(* "SEP" is the blank line "\n\n"; every other token is opaque text.       *)
(* A path string is a record [form, dir, name]: form "abs" for an absolute *)
(* path, "rel" for a path relative to the working directory.               *)
(***************************************************************************)
EXTENDS Integers, Sequences, FiniteSets, TLC

\* ---------------------------------------------------------------- bounds
MaxDocs == 2           \* add_document is called only below this store length
MaxCalls == 2          \* calls made on the knowledge base in one run
MaxFsOps == 1          \* changes made to the files outside the calls in one run
MaxSearchDocs == 3     \* store sizes explored for search
MaxCoord == 1          \* vector coordinates are 0..MaxCoord
MaxTopK == 4           \* top_k values explored for search
MaxDeepCalls == 3      \* syncs made in one run of the longer histories

\* ------------------------------------------------------------ file system
Dirs == {"d1", "d2"}
Files == {<<"d1", "a.txt">>, <<"d1", "b.md">>, <<"d2", "a.txt">>}
Names == {f[2] : f \in Files}
\* the states a file is written in: a modification time and the text read
FileVersions == {[mtime |-> 1, text |-> <<"x">>],
                 [mtime |-> 2, text |-> <<"y", "SEP", "y">>]}
Forms == {"abs", "rel"}
ExtChoices == {{".txt", ".md"}, {".txt"}}
\* contents passed to add_document: free text, a tagged document, and text
\* whose first paragraph is a file's relative path with no tag
DirectContents == {<<"note">>, <<"TAG", "a.txt", "SEP", "x">>, <<"a.txt", "SEP", "z">>}
Outcomes == {"ok", "read_fail", "embed_fail"}

VARIABLES
    fs,          \* existing files: <<dir, name>> -> [mtime, text]
    documents,   \* self.documents
    embeddings,  \* self.embeddings
    metadata,    \* self.metadata: absolute path -> [mtime]
    diskDocs,    \* documents.json: <<>> when absent, <<data>> when present
    diskEmb,     \* embeddings.pkl
    diskMeta,    \* metadata.json
    last,        \* the last call and how it ended
    log,         \* what the last call printed
    calls,       \* number of calls made so far
    fsOps,       \* number of source tree changes so far
    results      \* what the last search returned

vars == <<fs, documents, embeddings, metadata, diskDocs, diskEmb, diskMeta,
          last, log, calls, fsOps, results>>

\* ---------------------------------------------------------------- helpers
Perms(S) ==
    {p \in [1..Cardinality(S) -> S] : \A i, j \in DOMAIN p : i # j => p[i] # p[j]}

\* file_path.suffix.lower()
suffix(name) ==
    IF name = "a.txt" THEN ".txt" ELSE IF name = "b.md" THEN ".md" ELSE ""

\* Path.absolute()
absolute(p) == [p EXCEPT !.form = "abs"]

\* Path.relative_to(directory) raises ValueError unless directory is a
\* prefix of the path; an absolute path is never under a relative one.
relative_to_ok(p, directory) ==
    p.form = directory.form /\ p.dir = directory.dir

relative_to(p, directory) == <<p.name>>

\* the external embedding model: a deterministic function of the prompt
ollama_embeddings(prompt) == <<"embedding", prompt>>

\* f"文件: {relative_path}\n\n{content}"
FormatDocument(relative_path, content) ==
    <<"TAG">> \o relative_path \o <<"SEP">> \o content

\* doc.split('\n\n')[0]
RECURSIVE SplitFirst(_)
SplitFirst(s) ==
    IF s = <<>> \/ Head(s) = "SEP" THEN <<>>
    ELSE <<Head(s)>> \o SplitFirst(Tail(s))

\* .replace('文件: ', '')
RECURSIVE ReplaceTag(_)
ReplaceTag(s) ==
    IF s = <<>> THEN <<>>
    ELSE IF Head(s) = "TAG" THEN ReplaceTag(Tail(s))
    ELSE <<Head(s)>> \o ReplaceTag(Tail(s))

doc_path(doc) == ReplaceTag(SplitFirst(doc))

\* a lookup that never finds the document
FindDocIndex_never(docs, relative_path) == 0

\* the first index whose document has this identity, 0 for None
FindDocIndex(docs, relative_path) ==
    IF \E i \in DOMAIN docs : doc_path(docs[i]) = relative_path
    THEN CHOOSE i \in DOMAIN docs :
            /\ doc_path(docs[i]) = relative_path
            /\ \A j \in 1..(i - 1) : doc_path(docs[j]) # relative_path
    ELSE 0

\* self.metadata[key] = {'mtime': m}
MetaPut(m, key, mtime) ==
    [k \in DOMAIN m \cup {key} |-> IF k = key THEN [mtime |-> mtime] ELSE m[k]]

FileOf(p) == <<p.dir, p.name>>

\* ------------------------------------------------------------ persistence
json_dump_documents(docs) == [array |-> docs]
json_load_documents(j) == j.array
pickle_dump(embs) == [pickle |-> embs]
pickle_load(b) == b.pickle
json_dump_metadata(m) == {<<k, m[k].mtime>> : k \in DOMAIN m}
\* a load that keeps the paths and loses the modification times
json_load_metadata_no_mtime(j) ==
    [k \in {e[1] : e \in j} |-> [mtime |-> 0]]

json_load_metadata(j) ==
    [k \in {e[1] : e \in j} |-> [mtime |-> (CHOOSE e \in j : e[1] = k)[2]]]

\* bytes of an artifact that json.load or pickle.load rejects
garbage_json == [garbage |-> TRUE]
garbage_pickle == [garbage |-> TRUE]
garbage_metadata == {<<"garbage">>}

\* whether json.load / pickle.load returns instead of raising
json_decodes_documents(j) == "array" \in DOMAIN j
pickle_decodes(b) == "pickle" \in DOMAIN b
json_decodes_metadata(j) == \A e \in j : Len(e) = 2

\* __init__ calls the three loads with no handler: an artifact that exists
\* and does not decode makes the constructor raise
init_raises ==
    \/ diskMeta # <<>> /\ ~json_decodes_metadata(diskMeta[1])
    \/ diskDocs # <<>> /\ ~json_decodes_documents(diskDocs[1])
    \/ diskEmb # <<>> /\ ~pickle_decodes(diskEmb[1])

load_documents == IF diskDocs # <<>> THEN json_load_documents(diskDocs[1]) ELSE <<>>
load_embeddings == IF diskEmb # <<>> THEN pickle_load(diskEmb[1]) ELSE <<>>
load_metadata == IF diskMeta # <<>> THEN json_load_metadata(diskMeta[1]) ELSE << >>

EmptyMeta == [k \in {} |-> [mtime |-> 0]]

NoCall(op) == [op |-> op, dir |-> "", form |-> "", exts |-> {}, raised |-> FALSE]

\* the source trees at the start: every file present, written once
Init ==
    /\ fs = [f \in Files |-> [mtime |-> 1, text |-> <<"x">>]]
    /\ calls = 0
    /\ fsOps = 0
    /\ documents = <<>>
    /\ embeddings = <<>>
    /\ metadata = EmptyMeta
    /\ diskDocs = <<>>
    /\ diskEmb = <<>>
    /\ diskMeta = <<>>
    /\ last = NoCall("init")
    /\ log = <<>>
    /\ results = <<>>

\* ------------------------------------------------------- change detection
\* check_file_changes looks the file up under str(file_path), the path as
\* rglob yielded it, while the metadata is keyed by the absolute path.
check_file_changes(meta, file_path) ==
    LET relative_path == file_path
        mtime == fs[FileOf(file_path)].mtime
    IN  IF relative_path \notin DOMAIN meta THEN TRUE
        ELSE mtime # meta[relative_path].mtime

\* ------------------------------------------------------------ one file
\* The body of the rglob loop for one matching file; st holds the
\* instance's documents, embeddings, metadata and the printed lines.
\* oc maps each file that is read to what the external services do for it.
ProcessFile(st, directory, file_path, oc) ==
    LET abs_path == absolute(file_path)
        content == fs[FileOf(file_path)].text
        relative_path == relative_to(file_path, directory)
        document == FormatDocument(relative_path, content)
        doc_index == FindDocIndex(st.documents, relative_path)
        read_error == [st EXCEPT
            !.log = Append(@, [ev |-> "read_error", path |-> relative_path])]
        embed_error == [st EXCEPT
            !.log = Append(@, [ev |-> "embed_error", path |-> relative_path])]
        \* self.embeddings[doc_index] = ... raises IndexError, handled like any
        \* other exception of the file, when the embeddings list is shorter
        store_error == [st EXCEPT
            !.log = Append(@, [ev |-> "store_error", path |-> relative_path])]
    IN  IF ~check_file_changes(st.metadata, file_path) THEN st
        ELSE IF oc[file_path.name] = "read_fail" THEN read_error
        ELSE IF doc_index # 0 THEN
            IF oc[file_path.name] = "embed_fail"
            THEN [embed_error EXCEPT !.documents[doc_index] = document]
            ELSE IF doc_index > Len(st.embeddings)
            THEN [store_error EXCEPT !.documents[doc_index] = document]
            ELSE [st EXCEPT
                    !.documents[doc_index] = document,
                    !.embeddings[doc_index] = ollama_embeddings(content),
                    !.metadata = MetaPut(@, abs_path, fs[FileOf(file_path)].mtime),
                    !.log = Append(@, [ev |-> "updated", path |-> relative_path])]
        ELSE
            IF oc[file_path.name] = "embed_fail" THEN embed_error
            ELSE [st EXCEPT
                    !.documents = Append(@, document),
                    !.embeddings = Append(@, ollama_embeddings(document)),
                    !.metadata = MetaPut(@, abs_path, fs[FileOf(file_path)].mtime),
                    !.log = Append(@, [ev |-> "added", path |-> relative_path])]

RECURSIVE ProcessAll(_, _, _, _)
ProcessAll(st, directory, paths, oc) ==
    IF paths = <<>> THEN st
    ELSE ProcessAll(ProcessFile(st, directory, Head(paths), oc),
                    directory, Tail(paths), oc)

\* ------------------------------------------------------------ removal pass
\* indices of the documents the filtering loop keeps, in store order
RECURSIVE KeptIndices(_, _, _)
KeptIndices(docs, current_relative_paths, i) ==
    IF i > Len(docs) THEN <<>>
    ELSE IF doc_path(docs[i]) \in current_relative_paths
         THEN <<i>> \o KeptIndices(docs, current_relative_paths, i + 1)
         ELSE KeptIndices(docs, current_relative_paths, i + 1)

RECURSIVE RemovedLog(_, _, _)
RemovedLog(docs, current_relative_paths, i) ==
    IF i > Len(docs) THEN <<>>
    ELSE IF doc_path(docs[i]) \in current_relative_paths
         THEN RemovedLog(docs, current_relative_paths, i + 1)
         ELSE <<[ev |-> "removed", path |-> doc_path(docs[i])]>>
              \o RemovedLog(docs, current_relative_paths, i + 1)

PruneMetadata(meta, directory, current_relative_paths) ==
    LET keep == {abs_path \in DOMAIN meta :
                    /\ relative_to_ok(abs_path, directory)
                    /\ relative_to(abs_path, directory) \in current_relative_paths}
    IN  [abs_path \in keep |-> meta[abs_path]]

MatchingNames(dir, file_extensions) ==
    {n \in Names : <<dir, n>> \in DOMAIN fs /\ suffix(n) \in file_extensions}

\* the matching files check_file_changes reports as new or modified
ChangedNames(directory, file_extensions) ==
    {n \in MatchingNames(directory.dir, file_extensions) :
        check_file_changes(metadata,
            [form |-> directory.form, dir |-> directory.dir, name |-> n])}

\* a removal pass that filters the documents and forgets the embeddings
RemovalPass_documents_only(st1, directory, current_files) ==
    LET raised == \E p \in current_files : ~relative_to_ok(p, directory)
        current_relative_paths == {relative_to(p, directory) : p \in current_files}
        kept == KeptIndices(st1.documents, current_relative_paths, 1)
        new_documents == [j \in DOMAIN kept |-> st1.documents[kept[j]]]
        removed_count == Len(st1.documents) - Len(kept)
        removed == RemovedLog(st1.documents, current_relative_paths, 1)
    IN  IF raised THEN [st1 EXCEPT !.log = Append(@, [ev |-> "raised", path |-> <<>>])]
        ELSE IF removed_count > 0
        THEN [documents |-> new_documents, embeddings |-> st1.embeddings,
              metadata |-> PruneMetadata(st1.metadata, directory, current_relative_paths),
              log |-> st1.log \o removed]
        ELSE st1

\* Lines 228-260: the removal pass over the state st1 the file loop left.
\* Computing current_relative_paths raises ValueError when an absolute path
\* in current_files is not under directory; self.embeddings[i] at line 242
\* raises IndexError when a kept document has no embedding at its index.
RemovalPass(st1, directory, current_files) ==
    LET current_relative_paths == {relative_to(p, directory) : p \in current_files}
        kept == KeptIndices(st1.documents, current_relative_paths, 1)
        raised == \/ \E p \in current_files : ~relative_to_ok(p, directory)
                  \/ \E j \in DOMAIN kept : kept[j] > Len(st1.embeddings)
        new_documents == [j \in DOMAIN kept |-> st1.documents[kept[j]]]
        new_embeddings == [j \in DOMAIN kept |-> st1.embeddings[kept[j]]]
        removed_count == Len(st1.documents) - Len(kept)
        removed == RemovedLog(st1.documents, current_relative_paths, 1)
    IN  IF raised THEN [st1 EXCEPT !.log = Append(@, [ev |-> "raised", path |-> <<>>])]
        ELSE IF removed_count > 0
        THEN [documents |-> new_documents, embeddings |-> new_embeddings,
              metadata |-> PruneMetadata(st1.metadata, directory, current_relative_paths),
              log |-> st1.log \o removed]
        ELSE st1

\* The state add_documents_from_directory leaves in memory, and whether it
\* raised before reaching the save.  order is the order rglob yields the
\* matching files in; oc gives the external services' outcome per file read.
add_documents_from_directory(directory, file_extensions, order, oc) ==
    LET paths == [i \in DOMAIN order |->
                    [form |-> directory.form, dir |-> directory.dir, name |-> order[i]]]
        st0 == [documents |-> documents, embeddings |-> embeddings,
                metadata |-> metadata, log |-> <<>>]
        current_files == {absolute(paths[i]) : i \in DOMAIN paths}
    IN  RemovalPass(ProcessAll(st0, directory, paths, oc), directory, current_files)

Raised(r) == r.log # <<>> /\ r.log[Len(r.log)].ev = "raised"

\* one call of add_documents_from_directory: the instance it leaves and the
\* artifacts it saves unless it raised
SyncCall(directory, file_extensions, order, oc) ==
    \E r \in {add_documents_from_directory(directory, file_extensions, order, oc)} :
        /\ calls' = calls + 1
        /\ documents' = r.documents
        /\ embeddings' = r.embeddings
        /\ metadata' = r.metadata
        /\ log' = r.log
        /\ last' = [op |-> "sync", dir |-> directory.dir, form |-> directory.form,
                    exts |-> file_extensions, raised |-> Raised(r)]
        /\ IF Raised(r)
           THEN UNCHANGED <<diskDocs, diskEmb, diskMeta>>
           ELSE /\ diskDocs' = <<json_dump_documents(r.documents)>>
                /\ diskEmb' = <<pickle_dump(r.embeddings)>>
                /\ diskMeta' = <<json_dump_metadata(r.metadata)>>
        /\ UNCHANGED <<fs, fsOps, results>>

Sync(directory, file_extensions, order, oc) ==
    /\ calls < MaxCalls
    /\ SyncCall(directory, file_extensions, order, oc)

SyncAny ==
    /\ calls < MaxCalls
    /\ \E dir \in Dirs, form \in Forms, file_extensions \in ExtChoices :
      \E order \in Perms(MatchingNames(dir, file_extensions)) :
        \E oc \in [ChangedNames([form |-> form, dir |-> dir], file_extensions) -> Outcomes] :
          Sync([form |-> form, dir |-> dir], file_extensions, order, oc)

\* ------------------------------------------------------------ add_document
AddDocument(content, ok) ==
    /\ calls < MaxCalls
    /\ calls' = calls + 1
    /\ Len(documents) < MaxDocs
    /\ IF ok
       THEN /\ documents' = Append(documents, content)
            /\ embeddings' = Append(embeddings, ollama_embeddings(content))
            /\ last' = NoCall("add")
       ELSE /\ UNCHANGED <<documents, embeddings>>
            /\ last' = [NoCall("add") EXCEPT !.raised = TRUE]
    /\ log' = <<>>
    /\ UNCHANGED <<fs, fsOps, metadata, diskDocs, diskEmb, diskMeta, results>>

AddAny == \E content \in DirectContents, ok \in BOOLEAN : AddDocument(content, ok)

\* ---------------------------------------------------- clear_knowledge_base
\* a clear that empties the collections and leaves the artifacts on disk
clear_knowledge_base_memory_only ==
    /\ calls < MaxCalls
    /\ calls' = calls + 1
    /\ documents' = <<>>
    /\ embeddings' = <<>>
    /\ metadata' = EmptyMeta
    /\ last' = NoCall("clear")
    /\ log' = <<>>
    /\ UNCHANGED <<fs, fsOps, diskDocs, diskEmb, diskMeta, results>>

clear_knowledge_base ==
    /\ calls < MaxCalls
    /\ calls' = calls + 1
    /\ documents' = <<>>
    /\ embeddings' = <<>>
    /\ metadata' = EmptyMeta
    /\ diskDocs' = <<>>
    /\ diskEmb' = <<>>
    /\ diskMeta' = <<>>
    /\ last' = NoCall("clear")
    /\ log' = <<>>
    /\ UNCHANGED <<fs, fsOps, results>>

\* ------------------------------------------- __init__ of a fresh instance
\* When the constructor raises no instance exists: the collections are left
\* as they were and the call is recorded as raised.
Restart ==
    /\ calls < MaxCalls
    /\ calls' = calls + 1
    /\ IF init_raises
       THEN /\ UNCHANGED <<metadata, documents, embeddings>>
            /\ last' = [NoCall("restart") EXCEPT !.raised = TRUE]
       ELSE /\ metadata' = load_metadata
            /\ documents' = load_documents
            /\ embeddings' = load_embeddings
            /\ last' = NoCall("restart")
    /\ log' = <<>>
    /\ UNCHANGED <<fs, fsOps, diskDocs, diskEmb, diskMeta, results>>

\* ------------------------------------------------ the source tree changes
WriteFile(f, text, mtime) ==
    /\ fsOps < MaxFsOps
    /\ fsOps' = fsOps + 1
    /\ (f \in DOMAIN fs => fs[f] # [mtime |-> mtime, text |-> text])
    /\ fs' = [g \in DOMAIN fs \cup {f} |->
                IF g = f THEN [mtime |-> mtime, text |-> text] ELSE fs[g]]
    /\ last' = NoCall("fs")
    /\ UNCHANGED <<documents, embeddings, metadata, diskDocs, diskEmb, diskMeta,
                   log, calls, results>>

DeleteFile(f) ==
    /\ fsOps < MaxFsOps
    /\ fsOps' = fsOps + 1
    /\ f \in DOMAIN fs
    /\ fs' = [g \in DOMAIN fs \ {f} |-> fs[g]]
    /\ last' = NoCall("fs")
    /\ UNCHANGED <<documents, embeddings, metadata, diskDocs, diskEmb, diskMeta,
                   log, calls, results>>

FsChange ==
    \/ \E f \in Files, v \in FileVersions : WriteFile(f, v.text, v.mtime)
    \/ \E f \in Files : DeleteFile(f)

Next ==
    \/ SyncAny
    \/ AddAny
    \/ clear_knowledge_base
    \/ Restart
    \/ FsChange

Spec == Init /\ [][Next]_vars

\* ------------------------------------------------------------------ faults
\* Spec explores the calls of a process that keeps running over artifacts
\* nobody else touches.  SpecFaults adds what the storage directory and the
\* process can suffer: an artifact overwritten with bytes that do not decode,
\* and the process stopping inside the persistence step.  The source trees
\* stay as they are at the start; Spec and SpecDeep explore their changes.

\* no instance is left to call after the process stopped or __init__ raised
Alive == last.op # "stopped" /\ ~(last.op = "restart" /\ last.raised)

CorruptArtifact(artifact) ==
    /\ fsOps < MaxFsOps
    /\ fsOps' = fsOps + 1
    /\ \/ artifact = "documents" /\ diskDocs # <<>>
          /\ diskDocs' = <<garbage_json>> /\ UNCHANGED <<diskEmb, diskMeta>>
       \/ artifact = "embeddings" /\ diskEmb # <<>>
          /\ diskEmb' = <<garbage_pickle>> /\ UNCHANGED <<diskDocs, diskMeta>>
       \/ artifact = "metadata" /\ diskMeta # <<>>
          /\ diskMeta' = <<garbage_metadata>> /\ UNCHANGED <<diskDocs, diskEmb>>
    /\ last' = NoCall("corrupt")
    /\ UNCHANGED <<fs, documents, embeddings, metadata, log, calls, results>>

CorruptAny ==
    \E artifact \in {"documents", "embeddings", "metadata"} : CorruptArtifact(artifact)

\* save_data writes documents.json, then embeddings.pkl; save_metadata then
\* writes metadata.json.  A sync that reached line 263 and whose process
\* stops after `written` of these three writes leaves the later artifacts as
\* they were.
SyncStopped(directory, file_extensions, order, oc, written) ==
    \E r \in {add_documents_from_directory(directory, file_extensions, order, oc)} :
        /\ ~Raised(r)
        /\ calls' = calls + 1
        /\ documents' = r.documents
        /\ embeddings' = r.embeddings
        /\ metadata' = r.metadata
        /\ log' = r.log
        /\ last' = [op |-> "stopped", dir |-> directory.dir, form |-> directory.form,
                    exts |-> file_extensions, raised |-> FALSE]
        /\ diskDocs' = IF written >= 1 THEN <<json_dump_documents(r.documents)>>
                       ELSE diskDocs
        /\ diskEmb' = IF written >= 2 THEN <<pickle_dump(r.embeddings)>>
                      ELSE diskEmb
        /\ UNCHANGED <<diskMeta, fs, fsOps, results>>

SyncStoppedAny ==
    /\ calls < MaxCalls
    /\ \E dir \in Dirs, form \in Forms, file_extensions \in ExtChoices :
      \E order \in Perms(MatchingNames(dir, file_extensions)) :
        \E oc \in [ChangedNames([form |-> form, dir |-> dir], file_extensions) -> Outcomes] :
          \E written \in 0..2 :
            SyncStopped([form |-> form, dir |-> dir], file_extensions, order, oc, written)

NextFaults ==
    \/ Alive /\ SyncAny
    \/ Alive /\ SyncStoppedAny
    \/ Alive /\ AddAny
    \/ Alive /\ CorruptAny
    \/ Alive /\ clear_knowledge_base
    \/ Restart

SpecFaults == Init /\ [][NextFaults]_vars

\* --------------------------------------------------------- longer histories
\* SpecDeep follows one instance through up to MaxDeepCalls syncs, of either
\* root and either form, with the source trees changing in between, and with
\* clear_knowledge_base among the first MaxCalls calls.  add_document is
\* never called directly.  The trees change only while a sync can still
\* follow: no call sees a change made after the last one.
SyncDeep ==
    /\ calls < MaxDeepCalls
    /\ \E dir \in Dirs, form \in Forms, file_extensions \in ExtChoices :
      \E order \in Perms(MatchingNames(dir, file_extensions)) :
        \E oc \in [ChangedNames([form |-> form, dir |-> dir], file_extensions) -> Outcomes] :
          SyncCall([form |-> form, dir |-> dir], file_extensions, order, oc)

NextDeep ==
    \/ SyncDeep
    \/ clear_knowledge_base
    \/ calls < MaxDeepCalls /\ FsChange

SpecDeep == Init /\ [][NextDeep]_vars

\* ------------------------------------------------------------------ search
\* the query vectors and stored vectors explored for search
Vectors == {<<x, y>> : x \in 0..MaxCoord, y \in 0..MaxCoord}

RECURSIVE np_dot(_, _)
np_dot(u, v) ==
    IF u = <<>> THEN 0 ELSE Head(u) * Head(v) + np_dot(Tail(u), Tail(v))

Similarities(query_embedding) ==
    [i \in DOMAIN embeddings |-> np_dot(query_embedding, embeddings[i])]

\* np.argsort(similarities): the indices in ascending order of similarity.
\* The default kind is quicksort, which is not stable: the order among equal
\* similarities is whatever the build produces.
RECURSIVE SortedOrders(_, _)
SortedOrders(similarities, S) ==
    IF S = {} THEN {<<>>}
    ELSE UNION {{<<m>> \o p : p \in SortedOrders(similarities, S \ {m})} :
                m \in {i \in S : \A j \in S : similarities[i] <= similarities[j]}}

np_argsort(similarities) == SortedOrders(similarities, DOMAIN similarities)

\* a[:top_k], the slice taken from the wrong end
SliceFirst(a, top_k) ==
    SubSeq(a, 1, IF top_k < Len(a) THEN top_k ELSE Len(a))

\* a[-top_k:]
SliceLast(a, top_k) ==
    LET n == Len(a)
        start == IF top_k > 0 THEN (IF n - top_k > 0 THEN n - top_k ELSE 0)
                 ELSE (IF 0 - top_k < n THEN 0 - top_k ELSE n)
    IN  SubSeq(a, start + 1, n)

\* a[::-1]
Reverse(a) == [i \in 1..Len(a) |-> a[Len(a) + 1 - i]]

\* search, given the query's embedding and the order argsort produced
search(query_embedding, top_k, sorted) ==
    LET similarities == Similarities(query_embedding)
        top_indices == Reverse(SliceLast(sorted, top_k))
    IN  [j \in DOMAIN top_indices |->
            [content |-> documents[top_indices[j]],
             similarity |-> similarities[top_indices[j]]]]

\* search leaves the store as it is, so the searches of a run do not depend
\* on one another: one search is explored per run.
Search(query_embedding, top_k) ==
    /\ last.op = "init"
    /\ \E sorted \in np_argsort(Similarities(query_embedding)) :
        /\ results' = search(query_embedding, top_k, sorted)
        /\ last' = [op |-> "search", query |-> query_embedding, top_k |-> top_k]
        /\ UNCHANGED <<fs, documents, embeddings, metadata, diskDocs, diskEmb,
                       diskMeta, log, calls, fsOps>>

SearchAny ==
    /\ last.op = "init"
    /\ \E q \in Vectors, top_k \in 0..MaxTopK : Search(q, top_k)

\* a store of n documents with known embeddings
InitSearch ==
    /\ \E n \in 0..MaxSearchDocs :
        /\ documents = [i \in 1..n |-> <<"doc", i>>]
        /\ embeddings \in [1..n -> Vectors]
    /\ fs = [f \in Files |-> [mtime |-> 1, text |-> <<"x">>]]
    /\ calls = 0
    /\ fsOps = 0
    /\ metadata = EmptyMeta
    /\ diskDocs = <<>>
    /\ diskEmb = <<>>
    /\ diskMeta = <<>>
    /\ last = NoCall("init")
    /\ log = <<>>
    /\ results = <<>>

NextSearch == SearchAny

SpecSearch == InitSearch /\ [][NextSearch]_vars

\* ------------------------------------------------------------------ claims
\* C1: documents and embeddings have the same length in every reachable state.
C1_Alignment == Len(documents) = Len(embeddings)

\* ---- vocabulary of the sync claims
Events(l, kinds) == {i \in DOMAIN l : l[i].ev \in kinds}
FileEvents == {"added", "updated", "read_error", "embed_error"}
ErrorEvents == {"read_error", "embed_error"}

AbsKey(dir, n) == [form |-> "abs", dir |-> dir, name |-> n]

\* files the metadata m knows under dir
Tracked(m, dir) == {n \in Names : AbsKey(dir, n) \in DOMAIN m}

\* n is present under dir with the modification time the metadata m holds
UpToDate(m, dir, n) ==
    /\ <<dir, n>> \in DOMAIN fs
    /\ AbsKey(dir, n) \in DOMAIN m
    /\ m[AbsKey(dir, n)].mtime = fs[<<dir, n>>].mtime

\* n is present under dir and tracked with another modification time
Modified(m, dir, n) ==
    /\ <<dir, n>> \in DOMAIN fs
    /\ AbsKey(dir, n) \in DOMAIN m
    /\ m[AbsKey(dir, n)].mtime # fs[<<dir, n>>].mtime

\* the (document, embedding) pairs of a store, in store order
Zip(docs, embs) == [i \in DOMAIN docs |-> <<docs[i], embs[i]>>]
PairHasIdentity(pair, ids) == doc_path(pair[1]) \in ids
PairsWith(docs, embs, ids) ==
    LET Test(pair) == PairHasIdentity(pair, ids) IN SelectSeq(Zip(docs, embs), Test)

SavedIs(docs, embs, m) ==
    /\ diskDocs' = <<json_dump_documents(docs)>>
    /\ diskEmb' = <<pickle_dump(embs)>>
    /\ diskMeta' = <<json_dump_metadata(m)>>

\* a sync of a store holding at least two documents met a per-file failure
C1_Witness ==
    /\ last.op = "sync"
    /\ Events(log, ErrorEvents) # {}
    /\ Len(documents) >= 2

\* C2: a sync that follows a sync of the same root and extension set, with no
\* change to the source tree in between and no failure in the first, reads
\* and embeds nothing and leaves documents, embeddings and metadata as they were.
C2_IdempotentStep ==
    (/\ last.op = "sync" /\ last'.op = "sync"
     /\ last'.dir = last.dir /\ last'.form = last.form /\ last'.exts = last.exts
     /\ Events(log, ErrorEvents) = {})
    => (/\ Events(log', FileEvents) = {}
        /\ documents' = documents
        /\ embeddings' = embeddings
        /\ metadata' = metadata)

C2_Idempotent == [][C2_IdempotentStep]_vars

\* C2 as it holds of the code: the same, for a root given as an absolute path.
C2_IdempotentAbsolute == [][last'.form = "abs" => C2_IdempotentStep]_vars

\* C3: a sync in which the tracked file n was modified, every other present
\* file is up to date, nothing is to be removed and no read or embedding
\* fails, replaces the content and the embedding at the index of the document
\* whose identity is n and changes nothing else in the store.
C3_InPlaceStep(n) ==
    LET i == FindDocIndex(documents, <<n>>)
        text == fs[<<last'.dir, n>>].text
        present == MatchingNames(last'.dir, last'.exts)
    IN  (/\ last'.op = "sync"
         /\ n \in present
         /\ Modified(metadata, last'.dir, n)
         /\ i # 0
         /\ \A o \in present \ {n} : UpToDate(metadata, last'.dir, o)
         /\ \A j \in DOMAIN documents : doc_path(documents[j]) \in {<<o>> : o \in present}
         /\ Events(log', ErrorEvents) = {})
        => (/\ Len(documents') = Len(documents)
            /\ Len(embeddings') = Len(embeddings)
            /\ documents'[i] = FormatDocument(<<n>>, text)
            /\ embeddings'[i] \in {ollama_embeddings(text),
                                   ollama_embeddings(FormatDocument(<<n>>, text))}
            /\ \A j \in DOMAIN documents \ {i} :
                documents'[j] = documents[j] /\ embeddings'[j] = embeddings[j])

C3_InPlace == [][\A n \in Names : C3_InPlaceStep(n)]_vars

C3_InPlaceAbsolute == [][last'.form = "abs" => \A n \in Names : C3_InPlaceStep(n)]_vars

\* C4: a sync of a store whose documents all belong to files tracked under
\* the root, some of which are gone while the others are up to date, leaves
\* exactly the pairs of the files still present, in their former order.
C4_RemovalStep ==
    LET present == MatchingNames(last'.dir, last'.exts)
        tracked == Tracked(metadata, last'.dir)
        gone == tracked \ present
    IN  (/\ last'.op = "sync"
         /\ gone # {}
         /\ \A o \in present : UpToDate(metadata, last'.dir, o)
         /\ \A j \in DOMAIN documents : doc_path(documents[j]) \in {<<o>> : o \in tracked})
        => Zip(documents', embeddings')
             = PairsWith(documents, embeddings, {<<o>> : o \in tracked \ gone})

C4_Removal == [][C4_RemovalStep]_vars

C4_RemovalAbsolute == [][last'.form = "abs" => C4_RemovalStep]_vars

\* C6: when the embedding request fails for a file during a sync, the pairs
\* stored under that file's identity are what they were before the sync; a
\* failed add_document leaves the store as it was.
C6_NoPartialStep ==
    /\ last'.op = "sync" =>
        \A n \in Names :
            (\E e \in Events(log', {"embed_error"}) : log'[e].path = <<n>>)
            => PairsWith(documents', embeddings', {<<n>>})
                 = PairsWith(documents, embeddings, {<<n>>})
    /\ (last'.op = "add" /\ last'.raised) =>
        documents' = documents /\ embeddings' = embeddings

C6_NoPartial == [][C6_NoPartialStep]_vars

\* C7: a sync in which a read or an embedding failed still handles every
\* other new or modified file, runs the removal pass and saves the three
\* artifacts.
C7_FailureIsolatedStep ==
    LET directory == [form |-> last'.form, dir |-> last'.dir]
        present == MatchingNames(last'.dir, last'.exts)
    IN  (last'.op = "sync" /\ Events(log', ErrorEvents) # {})
        => (/\ \A n \in ChangedNames(directory, last'.exts) :
                \E e \in Events(log', FileEvents) : log'[e].path = <<n>>
            /\ ~last'.raised
            /\ \A j \in DOMAIN documents' :
                doc_path(documents'[j]) \in {<<o>> : o \in present}
            /\ SavedIs(documents', embeddings', metadata'))

C7_FailureIsolated == [][C7_FailureIsolatedStep]_vars

C7_FailureIsolatedAbsolute == [][last'.form = "abs" => C7_FailureIsolatedStep]_vars

\* C8: after a completed sync of root D, every metadata entry is for a file
\* that resolves under D and is present there with a recognized extension.
C8_MetadataPruned ==
    (last.op = "sync" /\ ~last.raised) =>
        \A k \in DOMAIN metadata :
            /\ relative_to_ok(k, [form |-> "abs", dir |-> last.dir])
            /\ k.name \in MatchingNames(last.dir, last.exts)

\* C8 as it holds of the code: the same, for a completed sync that removed
\* at least one document.
C8_PrunedWhenRemoved ==
    (last.op = "sync" /\ ~last.raised /\ Events(log, {"removed"}) # {}) =>
        \A k \in DOMAIN metadata :
            /\ relative_to_ok(k, [form |-> "abs", dir |-> last.dir])
            /\ k.name \in MatchingNames(last.dir, last.exts)

\* C10: a fresh instance started right after a completed sync holds the
\* documents, embeddings and metadata of the instance that saved; and a
\* fresh instance holds an empty collection for each artifact that is absent.
C10_RoundTripStep ==
    last'.op = "restart" =>
        /\ (last.op = "sync" /\ ~last.raised) =>
            /\ documents' = documents
            /\ embeddings' = embeddings
            /\ metadata' = metadata
        /\ diskDocs = <<>> => documents' = <<>>
        /\ diskEmb = <<>> => embeddings' = <<>>
        /\ diskMeta = <<>> => DOMAIN metadata' = {}

C10_RoundTrip == [][C10_RoundTripStep]_vars

\* a fresh instance has loaded a saved store of documents and metadata
C10_Witness ==
    /\ last.op = "restart"
    /\ Len(documents) >= 2
    /\ Len(embeddings) >= 2
    /\ DOMAIN metadata # {}

Min(a, b) == IF a < b THEN a ELSE b

\* the store index a search result was taken from
ResultIndex(r) == r.content[2]

\* C5: for k >= 1, search returns min(k, n) results in descending score order,
\* each a stored document with its own dot-product score, taken from distinct
\* indices, and no document left out scores higher than one returned; on an
\* empty store the result is empty.
C5_TopK ==
    (last.op = "search" /\ last.top_k >= 1) =>
        LET n == Len(documents)
            sim == [i \in 1..n |-> np_dot(last.query, embeddings[i])]
            m == Min(last.top_k, n)
            chosen == {ResultIndex(results[j]) : j \in 1..Len(results)}
        IN  /\ Len(results) = m
            /\ \A j \in 1..Len(results) :
                /\ ResultIndex(results[j]) \in 1..n
                /\ results[j].content = documents[ResultIndex(results[j])]
                /\ results[j].similarity = sim[ResultIndex(results[j])]
            /\ Cardinality(chosen) = m
            /\ \A j \in 1..(Len(results) - 1) :
                results[j].similarity >= results[j + 1].similarity
            /\ \A i \in (1..n) \ chosen : \A j \in 1..Len(results) :
                sim[i] <= results[j].similarity

\* a search with 1 <= k < n over scores that are not all equal has answered
C5_Witness ==
    /\ last.op = "search"
    /\ last.top_k >= 1
    /\ last.top_k < Len(documents)
    /\ Len(results) = 2
    /\ results[1].similarity > results[2].similarity
    /\ \E i \in 1..Len(documents) :
        np_dot(last.query, embeddings[i]) < results[2].similarity

\* C9: among documents with equal score, search returns the lower store index
\* first, and prefers the lower index when only some of them fit in the top k.
C9_StableTies ==
    (last.op = "search" /\ last.top_k >= 1) =>
        LET n == Len(documents)
            sim == [i \in 1..n |-> np_dot(last.query, embeddings[i])]
            chosen == {ResultIndex(results[j]) : j \in 1..Len(results)}
        IN  /\ \A j \in 1..(Len(results) - 1) :
                results[j].similarity = results[j + 1].similarity =>
                    ResultIndex(results[j]) < ResultIndex(results[j + 1])
            /\ \A i \in (1..n) \ chosen : \A c \in chosen :
                sim[i] = sim[c] => c < i

\* C11: after a completed sync in which no read and no embedding failed, the
\* embedding at every index is the embedding model's output for the content
\* string stored at that index, for appended and for replaced documents.
C11_EmbeddingOfContent ==
    (last.op = "sync" /\ ~last.raised /\ Events(log, ErrorEvents) = {}) =>
        \A i \in DOMAIN documents :
            i \in DOMAIN embeddings /\ embeddings[i] = ollama_embeddings(documents[i])

\* C12: constructing an instance over an artifact that exists and does not
\* decode does not fail, and the instance starts with the collection of that
\* artifact empty, as if the artifact were absent.
C12_CorruptAsAbsentStep ==
    last'.op = "restart" =>
        /\ ~last'.raised
        /\ (diskDocs # <<>> /\ ~json_decodes_documents(diskDocs[1])) => documents' = <<>>
        /\ (diskEmb # <<>> /\ ~pickle_decodes(diskEmb[1])) => embeddings' = <<>>
        /\ (diskMeta # <<>> /\ ~json_decodes_metadata(diskMeta[1])) => DOMAIN metadata' = {}

C12_CorruptAsAbsent == [][C12_CorruptAsAbsentStep]_vars

\* C13: clear_knowledge_base, called in any state, leaves documents,
\* embeddings and metadata empty and none of the three artifacts on disk; an
\* instance constructed right after it starts empty.
C13_ClearStep ==
    /\ last'.op = "clear" =>
        /\ documents' = <<>> /\ embeddings' = <<>> /\ DOMAIN metadata' = {}
        /\ diskDocs' = <<>> /\ diskEmb' = <<>> /\ diskMeta' = <<>>
    /\ (last.op = "clear" /\ last'.op = "restart") =>
        /\ ~last'.raised
        /\ documents' = <<>> /\ embeddings' = <<>> /\ DOMAIN metadata' = {}

C13_Clear == [][C13_ClearStep]_vars

\* clear has run on a store that a completed sync had saved and one of whose
\* artifacts was overwritten afterwards
C13_Witness ==
    /\ last.op = "clear"
    /\ fsOps = 1
    /\ diskDocs = <<>> /\ diskEmb = <<>> /\ diskMeta = <<>>

\* ---- vocabulary of the retry claim
\* the sync that just ended printed a read or embedding error for file n
FailedFor(l, n) == \E e \in Events(l, ErrorEvents) : l[e].path = <<n>>

\* the store holds the current text of dir/n under its identity tag, with
\* an embedding from the set allowed(document, text)
HoldsCurrent(docs, embs, dir, n, allowed(_, _)) ==
    \E i \in DOMAIN docs :
        /\ docs[i] = FormatDocument(<<n>>, fs[<<dir, n>>].text)
        /\ i \in DOMAIN embs
        /\ embs[i] \in allowed(docs[i], fs[<<dir, n>>].text)

OfDocument(document, text) == {ollama_embeddings(document)}
OfDocumentOrText(document, text) == {ollama_embeddings(document), ollama_embeddings(text)}

\* a file that failed in a sync keeps the metadata entry it had, or has none,
\* and is classified as new or modified when that sync has ended
C14_NoRefreshStep ==
    last'.op = "sync" =>
        \A n \in Names : FailedFor(log', n) =>
            /\ \/ AbsKey(last'.dir, n) \notin DOMAIN metadata'
               \/ /\ AbsKey(last'.dir, n) \in DOMAIN metadata
                  /\ metadata'[AbsKey(last'.dir, n)] = metadata[AbsKey(last'.dir, n)]
            /\ <<last'.dir, n>> \in DOMAIN fs
            /\ check_file_changes(metadata',
                    [form |-> last'.form, dir |-> last'.dir, name |-> n])

\* the sync of the same root that follows a failure for n, when no read and
\* no embedding fails in it, leaves n's current content in the store with an
\* embedding from the allowed set
C14_RecoveryStep(allowed(_, _)) ==
    \A n \in Names :
        (/\ last.op = "sync" /\ last'.op = "sync"
         /\ last'.dir = last.dir /\ last'.form = last.form
         /\ FailedFor(log, n)
         /\ n \in MatchingNames(last'.dir, last'.exts)
         /\ Events(log', ErrorEvents) = {})
        => HoldsCurrent(documents', embeddings', last'.dir, n, allowed)

\* C14: a file whose read or embedding failed in a sync gets no new or
\* refreshed metadata entry and is classified again as new or modified; the
\* next sync of that root in which nothing fails leaves the store holding the
\* file's current content and the embedding of that stored content.
C14_Retry == [][C14_NoRefreshStep /\ C14_RecoveryStep(OfDocument)]_vars

\* C14 as it holds of the code: the metadata part, and the recovery with the
\* embedding of either the stored content or the untagged text.
C14_RetryEitherEmbedding ==
    [][C14_NoRefreshStep /\ C14_RecoveryStep(OfDocumentOrText)]_vars

\* C15: after a sync of root D that completed with no read or embedding
\* failure, every present file with a recognized extension under D has a
\* document in the store whose content is its identity tag followed by its
\* current text, whatever syncs of D or of other roots came before.
C15_CurrentContent ==
    (last.op = "sync" /\ ~last.raised /\ Events(log, ErrorEvents) = {}) =>
        \A n \in MatchingNames(last.dir, last.exts) :
            \E i \in DOMAIN documents :
                documents[i] = FormatDocument(<<n>>, fs[<<last.dir, n>>].text)

\* the relative paths of the recognized files present under the root of the
\* last sync
PresentPaths == {<<n>> : n \in MatchingNames(last.dir, last.exts)}

\* doc starts with the tag, and the rest of its first paragraph is in paths
HasLeadingTagOf(doc, paths) ==
    /\ doc # <<>>
    /\ Head(doc) = "TAG"
    /\ SplitFirst(Tail(doc)) \in paths

\* C16: after a completed sync of root D every document in the store,
\* however it was added, starts with the identity tag followed by the
\* relative path of a recognized file present under D.
C16_TaggedPresent ==
    (last.op = "sync" /\ ~last.raised) =>
        \A j \in DOMAIN documents : HasLeadingTagOf(documents[j], PresentPaths)

\* C16 as it holds of the code: the first paragraph of every remaining
\* document, with the tag text taken out, is such a relative path.
C16_IdentityPresent ==
    (last.op = "sync" /\ ~last.raised) =>
        \A j \in DOMAIN documents : doc_path(documents[j]) \in PresentPaths

\* C17: in a store built from empty by syncs and clears alone, with files
\* created, edited and deleted in between and per-file failures, no two
\* documents have the same identity.
C17_UniqueIdentity ==
    \A i, j \in DOMAIN documents :
        i # j => doc_path(documents[i]) # doc_path(documents[j])

\* a sync has replaced the document of a file it had stored before, next to
\* another document
C17_Witness ==
    /\ last.op = "sync"
    /\ calls >= 2
    /\ Len(documents) = 2
    /\ Events(log, {"updated"}) # {}

\* C18: when the process stops after any prefix of the three writes of the
\* persistence step, the instance constructed next over the artifacts has
\* documents and embeddings of the same length.
C18_PrefixAlignedStep ==
    (last.op = "stopped" /\ last'.op = "restart" /\ ~last'.raised) =>
        Len(documents') = Len(embeddings')

C18_PrefixAligned == [][C18_PrefixAlignedStep]_vars

\* C19: for every store of n documents and every requested count k >= 0,
\* search returns exactly min(k, n) results; for k = 0 it returns none.
C19_ResultCount ==
    last.op = "search" => Len(results) = Min(last.top_k, Len(documents))

====
